---- MODULE Spec2Model ----
(***************************************************************************)
(* Alternate History Weaver: the timeline state machine of src/App.tsx.    *)
(*                                                                         *)
(* The React state cells of the App component are the variables.  Every    *)
(* async handler is split at its single await: the part before the await   *)
(* is one action (it issues a request that captures the closure's values), *)
(* the part after it (try-body, catch, finally) is one action per outcome. *)
(* A value of type T | null is modelled as a sequence: <<>> is null and    *)
(* <<v>> is the value v.  A string is a sequence of tokens.                *)
(*                                                                         *)
(* downloadTimelineAsPDF of the exporter module is a function of its       *)
(* argument; App never calls it, so it has its own specification,          *)
(* SpecExport, over the variables history and doc.                         *)
(***************************************************************************)
EXTENDS Integers, Sequences, FiniteSets, Bags, TLC

VARIABLES gameState, yearInput, era, selectedYear, initialEvents,
          historyLog, currentChoices, isLoading, error,
          inflight, calls, last, pristine,
          history, doc

appVars == <<gameState, yearInput, era, selectedYear, initialEvents,
             historyLog, currentChoices, isLoading, error,
             inflight, calls, last, pristine>>

(* The exporter's argument and the document it saved. *)
pdfVars == <<history, doc>>

vars == <<appVars, pdfVars>>

(* ------------------------------------------------------------------ *)
(* Bounds of the model                                                 *)
(* ------------------------------------------------------------------ *)
MaxCalls == 4
MaxAux == 2
MaxFairCalls == 3

(* ------------------------------------------------------------------ *)
(* Values                                                              *)
(* ------------------------------------------------------------------ *)
None == <<>>
Some(v) == <<v>>

SELECTING_YEAR == "SELECTING_YEAR"
SELECTING_EVENT == "SELECTING_EVENT"
IN_GAME == "IN_GAME"
GAME_OVER == "GAME_OVER"

CurrentYear == 2026
MinYear == -4000

DefaultYearInput == <<"1", "9", "6", "9">>
DefaultEra == "AD"

(* What the number input can hand to setYearInput. *)
YearInputs ==
  { DefaultYearInput,
    <<>>,
    <<"0">>,
    <<"4", "0", "0", "1">>,
    <<"1", "9", "6", "9", "e", "1">> }

Eras == {"AD", "BC"}

(* What the external service can answer. *)
EventLists == { <<>>, << <<"e1">>, <<"e2">> >> }
Narratives == { <<"n1">> }
ResponseYears == { Some(1970) }
AutoEventPool ==
  << [event |-> <<"a1">>, year |-> None],
     [event |-> <<"a2">>, year |-> Some(1972)],
     [event |-> <<"a3">>, year |-> Some(1973)],
     [event |-> <<"a4">>, year |-> Some(1974)] >>
AutoEventLists == { SubSeq(AutoEventPool, 1, k) : k \in 0..MaxAux }
ChoiceLists == { <<>>, << <<"c1">>, <<"c2">> >> }
Thrown == { [isError |-> TRUE, message |-> <<"service failed">>],
            [isError |-> FALSE, message |-> <<>>] }

Responses ==
  [ narrative : Narratives,
    year : ResponseYears,
    auto_generated_events : AutoEventLists,
    choices : ChoiceLists ]

(* ------------------------------------------------------------------ *)
(* parseInt(yearInput, 10)                                             *)
(* ------------------------------------------------------------------ *)
DigitChars == <<"0", "1", "2", "3", "4", "5", "6", "7", "8", "9">>

IsDigit(c) == \E d \in 1..10 : DigitChars[d] = c
DigitVal(c) == (CHOOSE d \in 1..10 : DigitChars[d] = c) - 1

RECURSIVE DigitPrefix(_, _, _)
(* <<value, count>> of the longest prefix of digits of s, from acc. *)
DigitPrefix(s, acc, n) ==
  IF s # <<>> /\ IsDigit(Head(s))
  THEN DigitPrefix(Tail(s), 10 * acc + DigitVal(Head(s)), n + 1)
  ELSE <<acc, n>>

(* NaN is None. *)
parseInt(s) ==
  LET signed == s # <<>> /\ Head(s) \in {"-", "+"}
      negative == s # <<>> /\ Head(s) = "-"
      body == IF signed THEN Tail(s) ELSE s
      p == DigitPrefix(body, 0, 0)
  IN IF p[2] = 0 THEN None
     ELSE Some(IF negative THEN 0 - p[1] ELSE p[1])

isNaN(n) == n = None

(* ------------------------------------------------------------------ *)
(* renderContent and the header: which controls are on the page         *)
(* ------------------------------------------------------------------ *)
(* The if (error) branch left out: the phase's own view is always shown. *)
renderContent_noErrorPanel ==
  IF isLoading /\ gameState # IN_GAME THEN "spinner"
  ELSE CASE gameState = SELECTING_YEAR -> "yearForm"
         [] gameState = SELECTING_EVENT -> "eventList"
         [] OTHER -> "timeline"

renderContent ==
  IF isLoading /\ gameState # IN_GAME THEN "spinner"
  ELSE IF error # None /\ error # Some(<<>>) THEN "error"
  ELSE CASE gameState = SELECTING_YEAR -> "yearForm"
         [] gameState = SELECTING_EVENT -> "eventList"
         [] OTHER -> "timeline"

YearFormOffered == renderContent = "yearForm"
SubmitOffered == YearFormOffered /\ ~isLoading
EventOffered(event) ==
  /\ renderContent = "eventList"
  /\ ~isLoading
  /\ \E i \in 1..Len(initialEvents) : initialEvents[i] = event
(* The choice grid rendered whether or not a request is loading. *)
ChoiceOffered_ignoresLoading(choice) ==
  /\ renderContent = "timeline"
  /\ gameState = IN_GAME
  /\ \E i \in 1..Len(currentChoices) : currentChoices[i] = choice

ChoiceOffered(choice) ==
  /\ renderContent = "timeline"
  /\ gameState = IN_GAME /\ ~isLoading
  /\ \E i \in 1..Len(currentChoices) : currentChoices[i] = choice
(* The Start Over button of the error panel left out. *)
ResetOffered_headerOnly ==
  \/ gameState # SELECTING_YEAR
  \/ renderContent = "timeline" /\ gameState = GAME_OVER

ResetOffered ==
  \/ gameState # SELECTING_YEAR
  \/ renderContent = "error"
  \/ renderContent = "timeline" /\ gameState = GAME_OVER

(* ------------------------------------------------------------------ *)
(* formatDisplayYear and the prompt context of advanceTimeline          *)
(* ------------------------------------------------------------------ *)
(* The BC branch left out. *)
formatDisplayYear_adOnly(year) ==
  IF year = None THEN <<>>
  ELSE <<ToString(year[1]), " AD">>

formatDisplayYear(year) ==
  IF year = None THEN <<>>
  ELSE IF year[1] < 0 THEN <<ToString(0 - year[1]), " BC">>
  ELSE <<ToString(year[1]), " AD">>

RenderEntry(h) == <<"(">> \o formatDisplayYear(h.year) \o <<") ">> \o h.narrative

RECURSIVE JoinBlocks(_, _)
JoinBlocks(blocks, sep) ==
  IF blocks = <<>> THEN <<>>
  ELSE IF Len(blocks) = 1 THEN blocks[1]
  ELSE blocks[1] \o sep \o JoinBlocks(Tail(blocks), sep)

fullHistoryOf(log) ==
  JoinBlocks([i \in 1..Len(log) |-> RenderEntry(log[i])], <<"\n\n">>)

(* ------------------------------------------------------------------ *)
(* Requests in flight                                                   *)
(* ------------------------------------------------------------------ *)
(* What a request carries besides the values its closure captured: phase,  *)
(* the phase it was issued in; stale, a reset ran while it was outstanding; *)
(* touched, the session data changed while it was outstanding.              *)
data == <<gameState, selectedYear, initialEvents, historyLog, currentChoices>>

Mark(reqs, reset, changed) ==
  LET mark(r) == [r EXCEPT !.stale = @ \/ reset, !.touched = @ \/ changed]
  IN BagOfAll(mark, reqs)

(* The unordered collection of outstanding promises. *)
Issue(reqs, req) == reqs (+) SetToBag({req})
Settle(reqs, req) == reqs (-) SetToBag({req})
Outstanding == BagCardinality(inflight)

Step(op, req, resp) == [op |-> op, req |-> req, resp |-> resp]

errorMessage(err) ==
  IF err.isError THEN err.message ELSE <<"An unknown error occurred.">>

(* ------------------------------------------------------------------ *)
(* Initial state: the useState defaults                                 *)
(* ------------------------------------------------------------------ *)
Init ==
  /\ gameState = SELECTING_YEAR
  /\ yearInput = DefaultYearInput
  /\ era = DefaultEra
  /\ selectedYear = None
  /\ initialEvents = <<>>
  /\ historyLog = <<>>
  /\ currentChoices = <<>>
  /\ isLoading = FALSE
  /\ error = None
  /\ inflight = EmptyBag
  /\ calls = 0
  /\ last = Step("init", None, None)
  /\ pristine = TRUE
  /\ history = <<>>
  /\ doc = None

(* ------------------------------------------------------------------ *)
(* The year form's onChange handlers                                    *)
(* ------------------------------------------------------------------ *)
setYearInput(value) ==
  /\ YearFormOffered
  /\ yearInput' = value
  /\ last' = Step("setYearInput", None, None)
  /\ pristine' = FALSE
  /\ UNCHANGED <<gameState, era, selectedYear, initialEvents, historyLog,
                 currentChoices, isLoading, error, inflight, calls>>
  /\ UNCHANGED pdfVars

setEra(value) ==
  /\ YearFormOffered
  /\ era' = value
  /\ last' = Step("setEra", None, None)
  /\ pristine' = FALSE
  /\ UNCHANGED <<gameState, yearInput, selectedYear, initialEvents, historyLog,
                 currentChoices, isLoading, error, inflight, calls>>
  /\ UNCHANGED pdfVars

(* ------------------------------------------------------------------ *)
(* handleReset                                                          *)
(* ------------------------------------------------------------------ *)
(* setIsLoading(false) and setError(null) left out of the reset. *)
handleReset_keepsStatus ==
  /\ ResetOffered
  /\ gameState' = SELECTING_YEAR
  /\ yearInput' = DefaultYearInput
  /\ era' = DefaultEra
  /\ selectedYear' = None
  /\ initialEvents' = <<>>
  /\ historyLog' = <<>>
  /\ currentChoices' = <<>>
  /\ last' = [op |-> "handleReset", req |-> None, resp |-> None]
  /\ pristine' = TRUE
  /\ inflight' = BagOfAll(LAMBDA r : [r EXCEPT !.stale = TRUE, !.touched = TRUE], inflight)
  /\ UNCHANGED <<isLoading, error, calls>>
  /\ UNCHANGED pdfVars

handleReset ==
  /\ ResetOffered
  /\ gameState' = SELECTING_YEAR
  /\ yearInput' = DefaultYearInput
  /\ era' = DefaultEra
  /\ selectedYear' = None
  /\ initialEvents' = <<>>
  /\ historyLog' = <<>>
  /\ currentChoices' = <<>>
  /\ isLoading' = FALSE
  /\ error' = None
  /\ last' = Step("handleReset", None, None)
  /\ pristine' = TRUE
  /\ inflight' = Mark(inflight, TRUE, data' # data)
  /\ UNCHANGED calls
  /\ UNCHANGED pdfVars

(* ------------------------------------------------------------------ *)
(* handleYearSubmit                                                     *)
(* ------------------------------------------------------------------ *)
invalidYearNum(yearNum) == isNaN(yearNum) \/ yearNum[1] <= 0

(* The era forgotten: the year is stored as typed. *)
finalYearOf_ignoresEra(yearNum, e) == yearNum

finalYearOf(yearNum, e) == IF e = "BC" THEN 0 - yearNum ELSE yearNum

(* The lower limit forgotten. *)
outOfRange_noLowerLimit(finalYear) == finalYear > CurrentYear

outOfRange(finalYear) == finalYear < MinYear \/ finalYear > CurrentYear

handleYearSubmit ==
  /\ SubmitOffered
  /\ pristine' = FALSE
  /\ LET yearNum == parseInt(yearInput)
     IN IF invalidYearNum(yearNum)
        THEN /\ error' = Some(<<"Please enter a valid positive year number.">>)
             /\ last' = Step("yearRejected", None, None)
             /\ UNCHANGED <<gameState, yearInput, era, selectedYear, initialEvents,
                            historyLog, currentChoices, isLoading, inflight, calls>>
        ELSE LET finalYear == finalYearOf(yearNum[1], era)
             IN IF outOfRange(finalYear)
                THEN /\ error' = Some(<<"Please enter a year between 4000 BC and the current year.">>)
                     /\ last' = Step("yearRejected", None, None)
                     /\ UNCHANGED <<gameState, yearInput, era, selectedYear,
                                    initialEvents, historyLog, currentChoices,
                                    isLoading, inflight, calls>>
                ELSE LET req == [ kind |-> "getInitialEvents",
                                  year |-> finalYear,
                                  yearNum |-> yearNum[1], era |-> era,
                                  phase |-> gameState,
                                  stale |-> FALSE, touched |-> FALSE ]
                     IN /\ calls < MaxCalls
                        /\ isLoading' = TRUE
                        /\ error' = None
                        /\ inflight' = Issue(inflight, req)
                        /\ calls' = calls + 1
                        /\ last' = Step("yearSubmitted", Some(req), None)
                        /\ UNCHANGED <<gameState, yearInput, era, selectedYear,
                                       initialEvents, historyLog, currentChoices>>
  /\ UNCHANGED pdfVars

getInitialEventsResolved(req, events) ==
  /\ BagIn(req, inflight)
  /\ req.kind = "getInitialEvents"
  /\ initialEvents' = events
  /\ selectedYear' = Some(req.year)
  /\ gameState' = SELECTING_EVENT
  /\ isLoading' = FALSE
  /\ last' = Step("getInitialEventsResolved", Some(req), Some(events))
  /\ UNCHANGED <<yearInput, era, historyLog, currentChoices, error, calls, pristine>>
  /\ inflight' = Mark(Settle(inflight, req), FALSE, data' # data)
  /\ UNCHANGED pdfVars

(* The finally block left out: isLoading is not cleared. *)
getInitialEventsRejected_noFinally(req, err) ==
  /\ BagIn(req, inflight)
  /\ req.kind = "getInitialEvents"
  /\ error' = Some(errorMessage(err))
  /\ inflight' = Settle(inflight, req)
  /\ last' = Step("getInitialEventsRejected", Some(req), Some(err))
  /\ UNCHANGED <<gameState, yearInput, era, selectedYear, initialEvents,
                 historyLog, currentChoices, calls, pristine, isLoading>>
  /\ UNCHANGED pdfVars

getInitialEventsRejected(req, err) ==
  /\ BagIn(req, inflight)
  /\ req.kind = "getInitialEvents"
  /\ error' = Some(errorMessage(err))
  /\ isLoading' = FALSE
  /\ inflight' = Settle(inflight, req)
  /\ last' = Step("getInitialEventsRejected", Some(req), Some(err))
  /\ UNCHANGED <<gameState, yearInput, era, selectedYear, initialEvents,
                 historyLog, currentChoices, calls, pristine>>
  /\ UNCHANGED pdfVars

(* ------------------------------------------------------------------ *)
(* handleEventSelect                                                    *)
(* ------------------------------------------------------------------ *)
Entry(id, narrative, choice, year) ==
  [id |-> id, narrative |-> narrative, choice |-> choice, year |-> year]

(* currentId started from 0 instead of firstId. *)
autoEntries_idFromZero(auto_generated_events, firstId) ==
  [ k \in 1..Len(auto_generated_events) |->
      Entry(k - 1, auto_generated_events[k].event, None,
            auto_generated_events[k].year) ]

(* The for-loop that pushes the auto-generated events, ids from firstId. *)
autoEntries(auto_generated_events, firstId) ==
  [ k \in 1..Len(auto_generated_events) |->
      Entry(firstId + k - 1, auto_generated_events[k].event, None,
            auto_generated_events[k].year) ]

handleEventSelect(event) ==
  /\ EventOffered(event)
  /\ pristine' = FALSE
  /\ IF selectedYear = None
     THEN /\ error' = Some(<<"No year selected. Please restart.">>)
          /\ isLoading' = FALSE
          /\ last' = Step("eventGuard", None, None)
          /\ UNCHANGED <<gameState, yearInput, era, selectedYear, initialEvents,
                         historyLog, currentChoices, inflight, calls>>
     ELSE LET req == [ kind |-> "startGame",
                       event |-> event, selectedYear |-> selectedYear[1],
                       phase |-> gameState,
                       stale |-> FALSE, touched |-> FALSE ]
          IN /\ calls < MaxCalls
             /\ isLoading' = TRUE
             /\ error' = None
             /\ inflight' = Issue(inflight, req)
             /\ calls' = calls + 1
             /\ last' = Step("eventSelected", Some(req), None)
             /\ UNCHANGED <<gameState, yearInput, era, selectedYear,
                            initialEvents, historyLog, currentChoices>>
  /\ UNCHANGED pdfVars

(* currentId started at 1: the first auto-generated entry repeats id 1. *)
startGameHistory_idFromOne(req, resp) ==
  << Entry(0, <<"It all began with: ">> \o req.event, None, Some(req.selectedYear)),
     Entry(1, resp.narrative, None, resp.year) >>
  \o autoEntries(resp.auto_generated_events, 1)

startGameHistory(req, resp) ==
  << Entry(0, <<"It all began with: ">> \o req.event, None, Some(req.selectedYear)),
     Entry(1, resp.narrative, None, resp.year) >>
  \o autoEntries(resp.auto_generated_events, 2)

startGameResolved(req, resp) ==
  /\ BagIn(req, inflight)
  /\ req.kind = "startGame"
  /\ historyLog' = startGameHistory(req, resp)
  /\ currentChoices' = resp.choices
  /\ gameState' = IN_GAME
  /\ isLoading' = FALSE
  /\ last' = Step("startGameResolved", Some(req), Some(resp))
  /\ UNCHANGED <<yearInput, era, selectedYear, initialEvents, error, calls, pristine>>
  /\ inflight' = Mark(Settle(inflight, req), FALSE, data' # data)
  /\ UNCHANGED pdfVars

startGameRejected(req, err) ==
  /\ BagIn(req, inflight)
  /\ req.kind = "startGame"
  /\ error' = Some(errorMessage(err))
  /\ isLoading' = FALSE
  /\ inflight' = Settle(inflight, req)
  /\ last' = Step("startGameRejected", Some(req), Some(err))
  /\ UNCHANGED <<gameState, yearInput, era, selectedYear, initialEvents,
                 historyLog, currentChoices, calls, pristine>>
  /\ UNCHANGED pdfVars

(* ------------------------------------------------------------------ *)
(* handleChoiceSelect                                                   *)
(* ------------------------------------------------------------------ *)
handleChoiceSelect(choice) ==
  /\ ChoiceOffered(choice)
  /\ pristine' = FALSE
  /\ IF historyLog = <<>> \/ historyLog[Len(historyLog)].year = None
     THEN /\ error' = Some(<<"Could not determine the last year. Please restart.">>)
          /\ isLoading' = FALSE
          /\ last' = Step("choiceGuard", None, None)
          /\ UNCHANGED <<gameState, yearInput, era, selectedYear, initialEvents,
                         historyLog, currentChoices, inflight, calls>>
     ELSE LET lastEntry == historyLog[Len(historyLog)]
              req == [ kind |-> "advanceTimeline",
                       fullHistory |-> fullHistoryOf(historyLog),
                       choice |-> choice,
                       lastYear |-> lastEntry.year[1],
                       historyLog |-> historyLog,
                       lastEntry |-> lastEntry,
                       phase |-> gameState,
                       stale |-> FALSE, touched |-> FALSE ]
          IN /\ calls < MaxCalls
             /\ isLoading' = TRUE
             /\ error' = None
             /\ inflight' = Issue(inflight, req)
             /\ calls' = calls + 1
             /\ last' = Step("choiceSelected", Some(req), None)
             /\ UNCHANGED <<gameState, yearInput, era, selectedYear,
                            initialEvents, historyLog, currentChoices>>
  /\ UNCHANGED pdfVars

(* The choice attached to the new narrative entry instead of the last one. *)
advanceHistory_choiceOnNew(req, resp) ==
  LET n == Len(req.historyLog)
  IN req.historyLog
     \o << Entry(n, resp.narrative, Some(<<"I chose to: ">> \o req.choice), resp.year) >>
     \o autoEntries(resp.auto_generated_events, n + 1)

advanceHistory(req, resp) ==
  LET choiceEntry == [req.lastEntry EXCEPT !.choice = Some(<<"I chose to: ">> \o req.choice)]
      n == Len(req.historyLog)
  IN SubSeq(req.historyLog, 1, n - 1)
     \o << choiceEntry, Entry(n, resp.narrative, None, resp.year) >>
     \o autoEntries(resp.auto_generated_events, n + 1)

(* The empty-choices test inverted. *)
advancePhase_inverted(phase, choices) == IF Len(choices) # 0 THEN GAME_OVER ELSE phase

(* if (choices.length === 0) { GAME_OVER, [] } else { choices } *)
advancePhase(phase, choices) == IF Len(choices) = 0 THEN GAME_OVER ELSE phase
advanceChoices(choices) == IF Len(choices) = 0 THEN <<>> ELSE choices

advanceTimelineResolved(req, resp) ==
  /\ BagIn(req, inflight)
  /\ req.kind = "advanceTimeline"
  /\ historyLog' = advanceHistory(req, resp)
  /\ gameState' = advancePhase(gameState, resp.choices)
  /\ currentChoices' = advanceChoices(resp.choices)
  /\ isLoading' = FALSE
  /\ last' = Step("advanceTimelineResolved", Some(req), Some(resp))
  /\ UNCHANGED <<yearInput, era, selectedYear, initialEvents, error, calls, pristine>>
  /\ inflight' = Mark(Settle(inflight, req), FALSE, data' # data)
  /\ UNCHANGED pdfVars

advanceTimelineRejected(req, err) ==
  /\ BagIn(req, inflight)
  /\ req.kind = "advanceTimeline"
  /\ error' = Some(errorMessage(err))
  /\ isLoading' = FALSE
  /\ inflight' = Settle(inflight, req)
  /\ last' = Step("advanceTimelineRejected", Some(req), Some(err))
  /\ UNCHANGED <<gameState, yearInput, era, selectedYear, initialEvents,
                 historyLog, currentChoices, calls, pristine>>
  /\ UNCHANGED pdfVars

(* ------------------------------------------------------------------ *)
(* The specification                                                    *)
(* ------------------------------------------------------------------ *)
Events == { <<"e1">>, <<"e2">> }
Choices == { <<"c1">>, <<"c2">> }

Next ==
  \/ \E value \in YearInputs : setYearInput(value)
  \/ \E value \in Eras : setEra(value)
  \/ handleReset
  \/ handleYearSubmit
  \/ \E req \in BagToSet(inflight), events \in EventLists : getInitialEventsResolved(req, events)
  \/ \E req \in BagToSet(inflight), err \in Thrown : getInitialEventsRejected(req, err)
  \/ \E event \in Events : handleEventSelect(event)
  \/ \E req \in BagToSet(inflight), resp \in Responses : startGameResolved(req, resp)
  \/ \E req \in BagToSet(inflight), err \in Thrown : startGameRejected(req, err)
  \/ \E choice \in Choices : handleChoiceSelect(choice)
  \/ \E req \in BagToSet(inflight), resp \in Responses : advanceTimelineResolved(req, resp)
  \/ \E req \in BagToSet(inflight), err \in Thrown : advanceTimelineRejected(req, err)

Spec == Init /\ [][Next]_vars

(* A promise of the external service settles: one of the continuations of  *)
(* an outstanding request runs.                                             *)
Respond ==
  \/ \E req \in BagToSet(inflight), events \in EventLists : getInitialEventsResolved(req, events)
  \/ \E req \in BagToSet(inflight), err \in Thrown : getInitialEventsRejected(req, err)
  \/ \E req \in BagToSet(inflight), resp \in Responses : startGameResolved(req, resp)
  \/ \E req \in BagToSet(inflight), err \in Thrown : startGameRejected(req, err)
  \/ \E req \in BagToSet(inflight), resp \in Responses : advanceTimelineResolved(req, resp)
  \/ \E req \in BagToSet(inflight), err \in Thrown : advanceTimelineRejected(req, err)

(* The sessions of at most MaxFairCalls external calls. *)
FairNext ==
  \/ \E value \in YearInputs : setYearInput(value)
  \/ \E value \in Eras : setEra(value)
  \/ handleReset
  \/ handleYearSubmit /\ calls' <= MaxFairCalls
  \/ \E event \in Events : handleEventSelect(event) /\ calls' <= MaxFairCalls
  \/ \E choice \in Choices : handleChoiceSelect(choice) /\ calls' <= MaxFairCalls
  \/ Respond

(* Every external call eventually completes: while a request is            *)
(* outstanding, a continuation eventually runs.                             *)
FairSpec == Init /\ [][FairNext]_vars /\ WF_vars(Respond)

(* ------------------------------------------------------------------ *)
(* The exporter: downloadTimelineAsPDF                                  *)
(* ------------------------------------------------------------------ *)
MaxEntries == 3

(* doc.internal.pageSize.height of new jsPDF(): an A4 page in mm. *)
pageHeight == 297
margin == 10

(* A text is taken by the number of lines doc.splitTextToSize wraps it to. *)
LineCounts == {1, 35, 45}

(* The entries the exporter can be given: the lines of the narrative block *)
(* and, when entry.choice is truthy, the lines of the choice block.        *)
PdfEntries ==
  [ narrative : LineCounts, choice : {None} \cup {Some(n) : n \in LineCounts} ]

Histories == UNION { [1..n -> PdfEntries] : n \in 0..MaxEntries }

(* new jsPDF(), yPos = 15, the title, yPos += 10.  drawn lists the blocks   *)
(* put on the pages, breaks the addPage calls with the cursor they saw.     *)
newDoc ==
  [ yPos |-> 15 + 10,
    pages |-> 1,
    drawn |-> << [entry |-> 0, block |-> "title", page |-> 1, y |-> 15, lines |-> 1] >>,
    breaks |-> <<>> ]

(* The page break taken when the cursor has only reached the limit. *)
addPageIfNeeded_atLimit(d, entry, block) ==
  IF d.yPos >= pageHeight - margin
  THEN [d EXCEPT !.pages = @ + 1,
                 !.yPos = margin,
                 !.breaks = Append(@, [entry |-> entry, block |-> block, yPos |-> d.yPos])]
  ELSE d

(* if (yPos > pageHeight - margin) { doc.addPage(); yPos = margin; } *)
addPageIfNeeded(d, entry, block) ==
  IF d.yPos > pageHeight - margin
  THEN [d EXCEPT !.pages = @ + 1,
                 !.yPos = margin,
                 !.breaks = Append(@, [entry |-> entry, block |-> block, yPos |-> d.yPos])]
  ELSE d

(* doc.text(lines, x, yPos); yPos += lines.length * 7 *)
drawBlock(d, entry, block, lines) ==
  [d EXCEPT !.drawn = Append(@, [entry |-> entry, block |-> block,
                                 page |-> d.pages, y |-> d.yPos, lines |-> lines]),
            !.yPos = @ + lines * 7]

(* The body of history.forEach for the entry at index i. *)
exportEntry(d, i, entry) ==
  LET narrated == drawBlock(addPageIfNeeded(d, i, "narrative"), i, "narrative",
                            entry.narrative)
      chosen == IF entry.choice # None
                THEN drawBlock(addPageIfNeeded(narrated, i, "choice"), i, "choice",
                               entry.choice[1])
                ELSE narrated
  IN [chosen EXCEPT !.yPos = @ + 5]

RECURSIVE exportEntries(_, _, _)
exportEntries(d, entries, i) ==
  IF i > Len(entries) THEN d
  ELSE exportEntries(exportEntry(d, i, entries[i]), entries, i + 1)

downloadTimelineAsPDF ==
  /\ doc = None
  /\ doc' = Some(exportEntries(newDoc, history, 1))
  /\ UNCHANGED <<history, appVars>>

InitExport ==
  /\ gameState = SELECTING_YEAR
  /\ yearInput = DefaultYearInput
  /\ era = DefaultEra
  /\ selectedYear = None
  /\ initialEvents = <<>>
  /\ historyLog = <<>>
  /\ currentChoices = <<>>
  /\ isLoading = FALSE
  /\ error = None
  /\ inflight = EmptyBag
  /\ calls = 0
  /\ last = Step("init", None, None)
  /\ pristine = TRUE
  /\ history \in Histories
  /\ doc = None

NextExport == downloadTimelineAsPDF

SpecExport == InitExport /\ [][NextExport]_vars

(* ------------------------------------------------------------------ *)
(* Vocabulary of the properties                                         *)
(* ------------------------------------------------------------------ *)
ResolvedOps == {"getInitialEventsResolved", "startGameResolved", "advanceTimelineResolved"}
RejectedOps == {"getInitialEventsRejected", "startGameRejected", "advanceTimelineRejected"}
HandlerOps == {"yearRejected", "yearSubmitted", "eventGuard", "eventSelected",
               "choiceGuard", "choiceSelected"}

(* The state handleReset is meant to leave behind. *)
ResetSession ==
  /\ gameState = SELECTING_YEAR
  /\ selectedYear = None
  /\ initialEvents = <<>>
  /\ historyLog = <<>>
  /\ currentChoices = <<>>
  /\ error = None
  /\ isLoading = FALSE

(* C1: a startGame or advanceTimeline response, success or failure, that   *)
(* is delivered after a reset ran while it was outstanding is ignored: if   *)
(* the user has not acted since the reset, the session is still the reset   *)
(* state once the response has been delivered.                              *)
C1_StaleResponseIgnored ==
  ( /\ last.op \in ResolvedOps \cup RejectedOps
    /\ last.req[1].kind \in {"startGame", "advanceTimeline"}
    /\ last.req[1].stale
    /\ pristine )
  => ResetSession

(* C2: at most one external call is in flight in every reachable state.    *)
C2_AtMostOneInFlight == Outstanding <= 1

(* C3: while isLoading is true the page offers no control that invokes     *)
(* handleYearSubmit, handleEventSelect or handleChoiceSelect, so no step    *)
(* taken from a loading state is one of these handlers and none starts a    *)
(* new external call.                                                       *)
NoHandlerOffered ==
  /\ ~SubmitOffered
  /\ \A event \in Events : ~EventOffered(event)
  /\ \A choice \in Choices : ~ChoiceOffered(choice)

C3_NoHandlerWhileLoading ==
  /\ [](isLoading => NoHandlerOffered)
  /\ [][isLoading => (last'.op \notin HandlerOps /\ calls' = calls)]_vars

(* C3's case: a request is loading in the game view while the session      *)
(* holds choices that the page does not offer.                              *)
C3_Witness ==
  /\ isLoading
  /\ gameState = IN_GAME
  /\ currentChoices # <<>>
  /\ last.op = "choiceSelected"

(* C4: when an external call fails and no reset ran while it was           *)
(* outstanding, error is set, isLoading is false, the phase is the phase    *)
(* the call was issued in and the session data is as it was before the call.*)
C4_FailureKeepsPriorState ==
  ( /\ last.op \in RejectedOps
    /\ ~last.req[1].stale )
  => ( /\ error # None
       /\ ~isLoading
       /\ gameState = last.req[1].phase
       /\ ~last.req[1].touched )

(* C5: a year submission whose input does not parse to a number, parses   *)
(* to a number <= 0, or whose signed year (BC negated) is outside           *)
(* [-4000, current year] is rejected locally: no call is issued, isLoading  *)
(* stays false, the phase stays SELECTING_YEAR, selectedYear stays unset    *)
(* and a validation message is set; and every getInitialEvents call in      *)
(* flight carries a non-zero year within [-4000, current year].             *)
ValidationMessages ==
  { <<"Please enter a valid positive year number.">>,
    <<"Please enter a year between 4000 BC and the current year.">> }

BadYear(input, e) ==
  LET n == parseInt(input)
  IN \/ n = None
     \/ n[1] <= 0
     \/ (IF e = "BC" THEN 0 - n[1] ELSE n[1]) < -4000
     \/ (IF e = "BC" THEN 0 - n[1] ELSE n[1]) > CurrentYear

C5_BadYearRejectedLocally ==
  /\ [][ (last'.op \in {"yearRejected", "yearSubmitted"} /\ BadYear(yearInput, era))
         => ( /\ last'.op = "yearRejected"
              /\ inflight' = inflight /\ calls' = calls
              /\ ~isLoading' /\ gameState' = SELECTING_YEAR /\ selectedYear' = None
              /\ error' # None /\ error'[1] \in ValidationMessages ) ]_vars
  /\ [](\A r \in BagToSet(inflight) :
          r.kind = "getInitialEvents"
          => (r.year # 0 /\ r.year >= -4000 /\ r.year <= CurrentYear))

(* C5's case: 4001 BC has just been rejected as out of range. *)
C5_Witness ==
  /\ last.op = "yearRejected"
  /\ yearInput = <<"4", "0", "0", "1">> /\ era = "BC"
  /\ error = Some(<<"Please enter a year between 4000 BC and the current year.">>)
  /\ Outstanding = 0

(* C6: for a year submission (n, era) whose getInitialEvents call          *)
(* succeeds, selectedYear is -n for BC and n for AD, it is the value that   *)
(* was passed to getInitialEvents, and startGame is later called with the   *)
(* stored selectedYear.                                                     *)
C6_SignedYearStored ==
  /\ last.op = "yearSubmitted"
     => ( /\ Some(last.req[1].yearNum) = parseInt(yearInput)
          /\ last.req[1].era = era )
  /\ last.op = "getInitialEventsResolved"
     => ( /\ last.req[1].era = "BC" => selectedYear = Some(0 - last.req[1].yearNum)
          /\ last.req[1].era = "AD" => selectedYear = Some(last.req[1].yearNum)
          /\ selectedYear = Some(last.req[1].year) )
  /\ last.op = "eventSelected"
     => selectedYear = Some(last.req[1].selectedYear)

(* C6's case: 1969 BC was submitted and its events have arrived. *)
C6_Witness ==
  /\ last.op = "getInitialEventsResolved"
  /\ last.req[1].era = "BC" /\ last.req[1].yearNum = 1969
  /\ selectedYear = Some(-1969)

(* C7: after a successful startGame response carrying N auto-generated    *)
(* events, historyLog has 2 + N entries with ids 0..N+1 in order; entry 0   *)
(* is the origin entry, whose narrative embeds the chosen event and whose   *)
(* year is the selectedYear the call was made with; entry 1 holds the       *)
(* response's narrative and year; entries 2..N+1 are the auto-generated     *)
(* events in the order returned; every choice is absent; currentChoices is  *)
(* the returned choices and the phase is IN_GAME.                           *)
EndsWith(text, part) ==
  /\ Len(text) > Len(part)
  /\ SubSeq(text, Len(text) - Len(part) + 1, Len(text)) = part

C7_StartGameBuildsLog ==
  last.op = "startGameResolved" =>
    LET req == last.req[1]
        resp == last.resp[1]
        N == Len(resp.auto_generated_events)
    IN /\ Len(historyLog) = 2 + N
       /\ \A i \in 1..(2 + N) : historyLog[i].id = i - 1
       /\ \A i \in 1..(2 + N) : historyLog[i].choice = None
       /\ EndsWith(historyLog[1].narrative, req.event)
       /\ historyLog[1].year = Some(req.selectedYear)
       /\ historyLog[2].narrative = resp.narrative
       /\ historyLog[2].year = resp.year
       /\ \A k \in 1..N :
            /\ historyLog[2 + k].narrative = resp.auto_generated_events[k].event
            /\ historyLog[2 + k].year = resp.auto_generated_events[k].year
       /\ currentChoices = resp.choices
       /\ gameState = IN_GAME

(* C7's case: a startGame response with an auto-generated event and        *)
(* choices has just been applied.                                           *)
C7_Witness ==
  /\ last.op = "startGameResolved"
  /\ Len(last.resp[1].auto_generated_events) = MaxAux
  /\ Len(historyLog) = 2 + MaxAux
  /\ currentChoices # <<>>

(* C8: an advanceTimeline response applied in phase IN_GAME moves the      *)
(* phase to GAME_OVER and empties currentChoices when it returns no         *)
(* choices, and otherwise leaves the phase IN_GAME and sets currentChoices  *)
(* to the returned list.                                                    *)
C8_AdvanceDecidesPhase ==
  [][ (last'.op = "advanceTimelineResolved" /\ gameState = IN_GAME)
      => IF last'.resp[1].choices = <<>>
         THEN gameState' = GAME_OVER /\ currentChoices' = <<>>
         ELSE gameState' = IN_GAME /\ currentChoices' = last'.resp[1].choices ]_vars

(* C8's case: an advance issued and answered in the game, with no choices  *)
(* left, has ended the story.                                               *)
C8_Witness ==
  /\ last.op = "advanceTimelineResolved"
  /\ ~last.req[1].stale /\ ~last.req[1].touched
  /\ last.resp[1].choices = <<>>
  /\ gameState = GAME_OVER
  /\ currentChoices = <<>>

(* C9: after a successful advance the entry that was last in the log when  *)
(* the choice was made carries the non-empty choice string built from the   *)
(* chosen choice, every entry appended by the advance has no choice, and    *)
(* in every reachable state the last entry of a non-empty log has none.     *)
C9_ChoiceAttachedToLastEntry ==
  /\ last.op = "advanceTimelineResolved" =>
       LET req == last.req[1]
           n == Len(req.historyLog)
       IN /\ Len(historyLog) > n
          /\ historyLog[n].choice # None
          /\ historyLog[n].choice[1] # <<>>
          /\ EndsWith(historyLog[n].choice[1], req.choice)
          /\ historyLog[n].id = req.historyLog[n].id
          /\ historyLog[n].narrative = req.historyLog[n].narrative
          /\ historyLog[n].year = req.historyLog[n].year
          /\ \A i \in (n + 1)..Len(historyLog) : historyLog[i].choice = None
  /\ historyLog # <<>> => historyLog[Len(historyLog)].choice = None

(* C9's case: an advance that appended a narrative entry and an            *)
(* auto-generated entry has just been applied.                              *)
C9_Witness ==
  /\ last.op = "advanceTimelineResolved"
  /\ Len(last.resp[1].auto_generated_events) >= 1
  /\ Len(historyLog) = Len(last.req[1].historyLog) + 1 + Len(last.resp[1].auto_generated_events)
  /\ historyLog[Len(last.req[1].historyLog)].choice = Some(<<"I chose to: ", "c2">>)

(* C10: reset, from any state it is taken in, leaves exactly the initial   *)
(* session: phase SELECTING_YEAR, selectedYear unset, initialEvents,        *)
(* historyLog and currentChoices empty, error unset, isLoading false, and   *)
(* the year input and era at their defaults.                                *)
C10_ResetRestoresDefaults ==
  last.op = "handleReset" =>
    /\ gameState = SELECTING_YEAR
    /\ selectedYear = None
    /\ initialEvents = <<>>
    /\ historyLog = <<>>
    /\ currentChoices = <<>>
    /\ error = None
    /\ isLoading = FALSE
    /\ yearInput = <<"1", "9", "6", "9">>
    /\ era = "AD"

(* C10's case: reset has just run while a request was still outstanding.   *)
C10_Witness ==
  /\ last.op = "handleReset"
  /\ Outstanding = 1
  /\ \A r \in BagToSet(inflight) : r.kind = "advanceTimeline"

(* C11, as claimed: in every reachable state the page offers a control    *)
(* that invokes handleReset.                                                *)
C11_ResetAlwaysOffered == ResetOffered

(* C11, amended: the page offers a control that invokes handleReset in     *)
(* every reachable state except those of phase SELECTING_YEAR that show     *)
(* the year form or its loading spinner (no error panel); there it offers   *)
(* none, and handleReset runs only from a state that offers it.             *)
C11_ResetOfferedOutsideYearForm ==
  /\ [](ResetOffered <=> (gameState # SELECTING_YEAR \/ renderContent = "error"))
  /\ [][last'.op = "handleReset" => ResetOffered]_vars

(* C11's case: the error panel of a rejected year, in phase SELECTING_YEAR, *)
(* where the header shows no reset button.                                  *)
C11_Witness ==
  /\ gameState = SELECTING_YEAR
  /\ last.op = "yearRejected"
  /\ renderContent = "error"
  /\ ResetOffered

(* C12: once the phase is GAME_OVER, the only step that changes the phase  *)
(* is handleReset, which moves it to SELECTING_YEAR.                        *)
C12_GameOverIsTerminal ==
  [][ (gameState = GAME_OVER /\ gameState' # GAME_OVER)
      => (last'.op = "handleReset" /\ gameState' = SELECTING_YEAR) ]_vars

(* C13: the ids of historyLog are strictly increasing and the entry at     *)
(* index i (from 0) has id i; after a successful advance the new narrative  *)
(* entry and the auxiliary entries have the consecutive ids that continue   *)
(* from the length of the log the advance was made from.                    *)
C13_IdsAreIndices ==
  /\ \A i \in 1..Len(historyLog) : historyLog[i].id = i - 1
  /\ \A i, j \in 1..Len(historyLog) : i < j => historyLog[i].id < historyLog[j].id
  /\ last.op = "advanceTimelineResolved" =>
       LET n == Len(last.req[1].historyLog)
           added == Len(last.resp[1].auto_generated_events) + 1
       IN /\ Len(historyLog) = n + added
          /\ \A k \in 1..added : historyLog[n + k].id = n + k - 1

(* C13's case: an advance that appended a narrative and an auxiliary entry. *)
C13_Witness ==
  /\ last.op = "advanceTimelineResolved"
  /\ Len(last.resp[1].auto_generated_events) > 0
  /\ Len(historyLog) >= 4

(* after keeps every entry of before, except that the last entry of before  *)
(* may have gained a choice it did not have.                                *)
LogExtends(before, after) ==
  /\ Len(before) <= Len(after)
  /\ \A i \in 1..Len(before) :
       \/ after[i] = before[i]
       \/ /\ i = Len(before)
          /\ before[i].choice = None
          /\ after[i].choice # None
          /\ after[i] = [before[i] EXCEPT !.choice = after[i].choice]

(* C14: for every step other than a reset the log before the step is a     *)
(* prefix of the log after it, except that the entry that was last may      *)
(* gain a choice; a choice once attached is never replaced.                 *)
C14_LogAppendOnly ==
  [][ last'.op # "handleReset" => LogExtends(historyLog, historyLog') ]_vars

(* C15: after a year submission rejected by the local validation, the     *)
(* year submission is still enabled in phase SELECTING_YEAR, with no reset  *)
(* in between.                                                              *)
C15_RejectedYearKeepsForm ==
  last.op = "yearRejected" => (gameState = SELECTING_YEAR /\ SubmitOffered)

(* An error is set and no request is loading. *)
ErrorIdle == error # None /\ ~isLoading

(* C16: in every reachable state where error is set and no request is      *)
(* loading, reset is the only user action offered (no submit, event or      *)
(* choice handler, no edit of the year form), no step from such a state is  *)
(* a user action other than reset, and error stays set until a reset.       *)
C16_ErrorLeavesOnlyReset ==
  /\ [](ErrorIdle => (NoHandlerOffered /\ ~YearFormOffered /\ ResetOffered))
  /\ [][ ErrorIdle =>
           /\ last'.op \in {"handleReset"} \cup ResolvedOps \cup RejectedOps
           /\ (error' = None => last'.op = "handleReset") ]_vars

(* C16's case: a failed external call has set error and loading is over.   *)
C16_Witness ==
  /\ last.op = "startGameRejected"
  /\ ErrorIdle
  /\ gameState = SELECTING_EVENT

(* The year as the history text shows it: "<-y> BC" for a negative year,   *)
(* "<y> AD" for a year from 0 up, nothing for an absent year.               *)
YearText(year) ==
  CASE year = None -> <<>>
    [] year # None /\ year[1] < 0 -> <<ToString(0 - year[1]), " BC">>
    [] year # None /\ year[1] >= 0 -> <<ToString(year[1]), " AD">>

(* The first n blocks of the history text of log, a blank line between     *)
(* consecutive blocks.                                                      *)
RECURSIVE HistoryText(_, _)
HistoryText(log, n) ==
  IF n = 0 THEN <<>>
  ELSE (IF n = 1 THEN <<>> ELSE HistoryText(log, n - 1) \o <<"\n\n">>)
       \o <<"(">> \o YearText(log[n].year) \o <<") ">> \o log[n].narrative

(* C17: on every advanceTimeline call the history argument is the text of   *)
(* the whole current historyLog, one block "(<formatted year>) <narrative>" *)
(* per entry in log order with a blank line between blocks, and lastYear is *)
(* the year of the last entry.                                              *)
C17_HistoryArgument ==
  last.op = "choiceSelected" =>
    /\ historyLog # <<>>
    /\ last.req[1].fullHistory = HistoryText(historyLog, Len(historyLog))
    /\ historyLog[Len(historyLog)].year = Some(last.req[1].lastYear)

(* C17's case: a call whose log holds a BC year, an AD year and an entry   *)
(* without a year.                                                          *)
C17_Witness ==
  /\ last.op = "choiceSelected"
  /\ \E i \in 1..Len(historyLog) : historyLog[i].year = None
  /\ \E i \in 1..Len(historyLog) :
       historyLog[i].year # None /\ historyLog[i].year[1] < 0
  /\ \E i \in 1..Len(historyLog) :
       historyLog[i].year # None /\ historyLog[i].year[1] >= 0

(* Height of the title and the first n entries on an endless page: 7 per  *)
(* wrapped line of narrative and choice, 5 after each entry.                *)
RECURSIVE RenderedHeight(_, _)
RenderedHeight(entries, n) ==
  IF n = 0 THEN 25
  ELSE RenderedHeight(entries, n - 1)
       + 7 * entries[n].narrative
       + (IF entries[n].choice = None THEN 0 ELSE 7 * entries[n].choice[1])
       + 5

(* Height of everything above the last block of the log. *)
HeightBeforeLastBlock(entries) ==
  LET n == Len(entries)
  IN IF n = 0 THEN 0
     ELSE RenderedHeight(entries, n - 1)
          + (IF entries[n].choice = None THEN 0 ELSE 7 * entries[n].narrative)

(* A page break is taken only in front of a narrative or a choice block,    *)
(* exactly when the cursor exceeds pageHeight - margin, and puts the block  *)
(* at the top margin of the next page; every block lies on one page.        *)
PageBreakRule(d) ==
  /\ d.pages = 1 + Len(d.breaks)
  /\ \A k \in 1..Len(d.breaks) :
       /\ d.breaks[k].block \in {"narrative", "choice"}
       /\ d.breaks[k].yPos > pageHeight - margin
       /\ \E b \in 1..Len(d.drawn) :
            /\ d.drawn[b].entry = d.breaks[k].entry
            /\ d.drawn[b].block = d.breaks[k].block
            /\ d.drawn[b].page = k + 1
            /\ d.drawn[b].y = margin
            /\ d.drawn[b - 1].page = k
  /\ \A b \in 2..Len(d.drawn) :
       /\ d.drawn[b].y <= pageHeight - margin
       /\ \/ d.drawn[b].page = d.drawn[b - 1].page
             /\ d.drawn[b].y >= d.drawn[b - 1].y + 7 * d.drawn[b - 1].lines
          \/ d.drawn[b].page = d.drawn[b - 1].page + 1
             /\ d.drawn[b].y = margin

(* C18, as claimed: a log whose total rendered height exceeds the usable   *)
(* height of one page is saved on more than one page, and page breaks       *)
(* follow the page-break rule.                                              *)
C18_TallLogHasMorePages ==
  doc # None =>
    /\ RenderedHeight(history, Len(history)) > pageHeight - margin => doc[1].pages > 1
    /\ PageBreakRule(doc[1])

(* C18, amended: the saved document has more than one page exactly when    *)
(* the height of everything above the last block of the log exceeds         *)
(* pageHeight - margin (a log that passes the limit only with its last      *)
(* block stays on one page), and page breaks follow the page-break rule.    *)
C18_BreakBeforeBlockOnly ==
  doc # None =>
    /\ doc[1].pages > 1 <=> HeightBeforeLastBlock(history) > pageHeight - margin
    /\ PageBreakRule(doc[1])

(* C18's case: a document of three pages, one break in front of a choice   *)
(* block and one in front of a narrative block.                             *)
C18_Witness ==
  /\ doc # None
  /\ doc[1].pages = 3
  /\ \E k \in 1..Len(doc[1].breaks) : doc[1].breaks[k].block = "choice"
  /\ \E k \in 1..Len(doc[1].breaks) : doc[1].breaks[k].block = "narrative"

(* C19: in every reachable state where a game has been started            *)
(* (historyLog is not empty) and no request is loading, currentChoices is   *)
(* empty exactly when the phase is GAME_OVER.                               *)
C19_NoChoicesMeansGameOver ==
  (historyLog # <<>> /\ ~isLoading) =>
    (currentChoices = <<>> <=> gameState = GAME_OVER)

(* C20: when every external call eventually completes, isLoading true is   *)
(* always followed by isLoading false, whatever the interleaving; and the   *)
(* guard paths that return before any external call (no selected year, no   *)
(* last year) leave isLoading false in the step that took them.             *)
C20_LoadingEnds ==
  /\ isLoading ~> ~isLoading
  /\ [](last.op \in {"eventGuard", "choiceGuard"} => ~isLoading)

(* C20's case: a failed call has cleared the loading it had set, with no   *)
(* request left outstanding.                                                *)
C20_Witness ==
  /\ last.op = "getInitialEventsRejected"
  /\ ~last.req[1].stale
  /\ ~isLoading
  /\ Outstanding = 0

====
